---- MODULE Spec2Model ----
(***************************************************************************)
(* Admission control of bulletdrop: the sliding-window RateLimiter, the    *)
(* IP block / whitelist registry and RateLimitMiddleware.dispatch          *)
(* (backend/app/middleware/rate_limit.py), with the operator routes of     *)
(* backend/app/api/routes/rate_limits.py, over a Redis store.              *)
(*                                                                         *)
(* Strings are sequences of tokens, so that the substring tests, the key   *)
(* formatting and the glob patterns of the code are computed and not       *)
(* assumed.  Time is in seconds.  `redis_service.client` is read as the    *)
(* Redis connection of RedisService (its redis_client); every command on   *)
(* it raises while the store is unreachable.                               *)
(***************************************************************************)
EXTENDS Integers, Sequences, FiniteSets, TLC

VARIABLES
    now,        \* wall clock, time.time(), in seconds
    storeUp,    \* the Redis store answers commands
    connected,  \* RedisService._connected of the process serving the admin routes
    zset,       \* rate key -> sorted set; member str(now) carries score now
    zttl,       \* rate key -> expiry deadline of the key (0: no key)
    blockTtl,   \* ip -> expiry deadline of "blocked:ip:{ip}" (0: no key)
    whitelist,  \* members of the set "rate_limit:whitelist"
    wk,         \* worker -> the request it is handling in dispatch
    adm,        \* the admin route being executed
    mon,        \* the keys of the SecurityMonitor: event lists, event keys, counters
    left,       \* external events (requests, calls, clock steps, outages) still to come
    hist,       \* observations of the run used by the properties
    counter,    \* the key "rate:{endpoint}:{user_id}:{period}" of check_rate_limit
    crl         \* worker -> the call of check_rate_limit it is executing

vars == <<now, storeUp, connected, zset, zttl, blockTtl, whitelist,
          wk, adm, mon, left, hist, counter, crl>>

store == <<zset, zttl, blockTtl, whitelist>>

----------------------------------------------------------------------------
(* Bounds of the exploration *)

MaxEvents == 8
MaxOutageEvents == 6
MaxExemptEvents == 7
MaxAdminEvents == 5
MaxTwoEvents == 6
MaxCalls == 7
MaxLimit == 2

(* Settings (backend/app/core/config.py); the request budgets are scaled   *)
(* down, they are environment-configurable fields of Settings.             *)
RATE_LIMIT_ENABLED == TRUE
RATE_LIMIT_AUTH_PER_MINUTE == 2
RATE_LIMIT_AUTH_PER_HOUR == 3
RATE_LIMIT_API_PER_MINUTE == 2
RATE_LIMIT_API_PER_HOUR == 3
RATE_LIMIT_UPLOAD_PER_MINUTE == 1
RATE_LIMIT_UPLOAD_PER_HOUR == 2
RATE_LIMIT_BLOCK_DURATION == 300

MINUTE_WINDOW == 60
HOUR_WINDOW == 3600
KEY_GRACE == 60

----------------------------------------------------------------------------
(* Strings as token sequences *)

\* s.lower() on one token
LowerTok(t) ==
    CASE t = "/LOGIN" -> "/login"
      [] t = "/Health" -> "/health"
      [] OTHER -> t

\* str.lower()
Lower(s) == [i \in 1..Len(s) |-> LowerTok(s[i])]

\* `pat in s` of Python: pat occurs as a contiguous part of s
Contains(s, pat) ==
    \E i \in 1..(Len(s) - Len(pat) + 1) : SubSeq(s, i, i + Len(pat) - 1) = pat

\* the last / first character of a token is ":"
EndsColon(t) == t \in {":ip:", ":"}
StartsColon(t) == t \in {":ip:", ":1m", ":1h", ":"}

\* Redis glob match of the pattern f"*:{ip}:*" against a key: the key holds
\* ":" + ip + ":" somewhere
GlobColonIp(key, ip) ==
    \E i \in 2..(Len(key) - Len(ip)) :
        /\ SubSeq(key, i, i + Len(ip) - 1) = ip
        /\ EndsColon(key[i - 1])
        /\ StartsColon(key[i + Len(ip)])

----------------------------------------------------------------------------
(* Inputs *)

IP1 == <<"10.0.0.1">>
IP2 == <<"10.0.0.2">>
\* a client-chosen X-Forwarded-For value, "auth:ip:6.6.6.6"
IPX == <<"auth", ":ip:", "6.6.6.6">>
\* the address that value ends with
IP6 == <<"6.6.6.6">>
IPs == {IP1, IP2, IPX, IP6}

PathHealth == <<"/health">>
PathDocs == <<"/docs">>
PathRedoc == <<"/redoc">>
PathOpenapi == <<"/openapi.json">>
PathLogin == <<"/login", "/json">>
PathUploads == <<"/api", "/upload", "s">>
PathAdmin == <<"/admin", "/users">>
PathApi == <<"/api", "/domains">>
Paths == {PathHealth, PathDocs, PathRedoc, PathOpenapi,
          PathLogin, PathUploads, PathAdmin, PathApi}

\* the paths of the probes and of the documentation
ExemptRequests == {PathHealth, PathDocs, PathRedoc, PathOpenapi}

\* the requests the clients send: (ip, path)
Requests == {<<IP1, PathLogin>>, <<IPX, PathApi>>}

\* clock steps: 1 + 59 is the minute window, 1 + 59 + 3540 the hour window
Steps == {1, 59, 3540}
GateSteps == {1, 60}
Durations == {0, 60, 300}
Workers == {"w1", "w2"}

----------------------------------------------------------------------------
(* Keys *)

\* RateLimitMiddleware.get_rate_limit_key
get_rate_limit_key(path_, ip) ==
    LET path == Lower(path_) IN
    IF \/ Contains(path, <<"/login">>)
       \/ Contains(path, <<"/register">>)
       \/ Contains(path, <<"/auth">>)
    THEN <<"auth", ":ip:">> \o ip
    ELSE IF Contains(path, <<"/upload">>) THEN <<"upload", ":ip:">> \o ip
    ELSE IF Contains(path, <<"/admin">>) THEN <<"admin", ":ip:">> \o ip
    ELSE <<"api", ":ip:">> \o ip

\* RateLimitConfig: (per minute, per hour) of each endpoint type; the admin
\* endpoints use the limits of the general API
get_auth_limits == <<RATE_LIMIT_AUTH_PER_MINUTE, RATE_LIMIT_AUTH_PER_HOUR>>
get_api_limits == <<RATE_LIMIT_API_PER_MINUTE, RATE_LIMIT_API_PER_HOUR>>
get_upload_limits == <<RATE_LIMIT_UPLOAD_PER_MINUTE, RATE_LIMIT_UPLOAD_PER_HOUR>>
get_admin_limits == <<RATE_LIMIT_API_PER_MINUTE, RATE_LIMIT_API_PER_HOUR>>

\* get_rate_limits testing /admin before /upload
get_rate_limits_admin_first(path_) ==
    LET path == Lower(path_) IN
    IF \/ Contains(path, <<"/login">>)
       \/ Contains(path, <<"/register">>)
       \/ Contains(path, <<"/auth">>)
    THEN <<get_auth_limits[1], MINUTE_WINDOW, get_auth_limits[2], HOUR_WINDOW>>
    ELSE IF Contains(path, <<"/admin">>)
    THEN <<get_admin_limits[1], MINUTE_WINDOW, get_admin_limits[2], HOUR_WINDOW>>
    ELSE IF Contains(path, <<"/upload">>)
    THEN <<get_upload_limits[1], MINUTE_WINDOW, get_upload_limits[2], HOUR_WINDOW>>
    ELSE <<get_api_limits[1], MINUTE_WINDOW, get_api_limits[2], HOUR_WINDOW>>

\* RateLimitMiddleware.get_rate_limits: (minute_limit, 60, hour_limit, 3600)
get_rate_limits(path_) ==
    LET path == Lower(path_) IN
    IF \/ Contains(path, <<"/login">>)
       \/ Contains(path, <<"/register">>)
       \/ Contains(path, <<"/auth">>)
    THEN <<get_auth_limits[1], MINUTE_WINDOW, get_auth_limits[2], HOUR_WINDOW>>
    ELSE IF Contains(path, <<"/upload">>)
    THEN <<get_upload_limits[1], MINUTE_WINDOW, get_upload_limits[2], HOUR_WINDOW>>
    ELSE IF Contains(path, <<"/admin">>)
    THEN <<get_admin_limits[1], MINUTE_WINDOW, get_admin_limits[2], HOUR_WINDOW>>
    ELSE <<get_api_limits[1], MINUTE_WINDOW, get_api_limits[2], HOUR_WINDOW>>

key_minute(path_, ip) == get_rate_limit_key(path_, ip) \o <<":1m">>
\* the long window kept under the key of the short one
key_hour_as_minute(path_, ip) == get_rate_limit_key(path_, ip) \o <<":1m">>

key_hour(path_, ip) == get_rate_limit_key(path_, ip) \o <<":1h">>

\* the paths dispatch lets through unexamined
\* the exemption list without the liveness probe
ExemptPaths_docs_only == {PathDocs, PathRedoc, PathOpenapi}

ExemptPaths == {PathHealth, PathDocs, PathRedoc, PathOpenapi}

\* the category of a path: the prefix of its rate key
category(path_) == get_rate_limit_key(path_, IP1)[1]

\* every rate key a request of the model can produce
RateKeys ==
    UNION {{key_minute(p, ip), key_hour(p, ip)} : p \in Paths \ ExemptPaths, ip \in IPs}

\* f"blocked:ip:{ip}"
block_key(ip) == <<"blocked", ":ip:">> \o ip

----------------------------------------------------------------------------
(* Redis commands on a sorted set (member str(t) with score t is kept as t) *)

ZRemRangeByScore(s, lo, hi) == {m \in s : ~(lo <= m /\ m <= hi)}
ZCard(s) == Cardinality(s)
ZAdd(s, t) == s \cup {t}
Max(a, b) == IF a >= b THEN a ELSE b

\* the pipeline pruning only the scores below now - window
pipeline_execute_keep_edge(s, t, window) ==
    LET pruned == {m \in s : m >= t - window} IN
    [zcard |-> ZCard(pruned),
     members |-> ZAdd(pruned, t),
     deadline |-> t + window + KEY_GRACE]

\* the pipeline of is_rate_limited, executed as one MULTI/EXEC transaction:
\* zremrangebyscore, zcard, zadd, expire.  Yields the zcard result, the new
\* set and the new deadline of the key.
pipeline_execute(s, t, window) ==
    LET pruned == ZRemRangeByScore(s, 0, t - window) IN
    [zcard |-> ZCard(pruned),
     members |-> ZAdd(pruned, t),
     deadline |-> t + window + KEY_GRACE]

\* is_rate_limited deciding with > where the code has >=
is_rate_limited_gt(up, s, dl, t, limit, window) ==
    IF up
    THEN LET r == pipeline_execute(s, t, window)
         IN [is_limited |-> r.zcard > limit,
             rate_info |-> [limit |-> limit,
                            remaining |-> Max(0, limit - r.zcard - 1),
                            reset |-> t + window,
                            current |-> r.zcard + 1],
             members |-> r.members,
             deadline |-> r.deadline]
    ELSE [is_limited |-> FALSE,
          rate_info |-> [limit |-> limit, remaining |-> limit - 1,
                         reset |-> t + window],
          members |-> s,
          deadline |-> dl]

\* RateLimiter.is_rate_limited: the decision, rate_info and the new key state
is_rate_limited(up, s, dl, t, limit, window) ==
    IF up
    THEN LET r == pipeline_execute(s, t, window)
             current_requests == r.zcard
         IN [is_limited |-> current_requests >= limit,
             rate_info |-> [limit |-> limit,
                            remaining |-> Max(0, limit - current_requests - 1),
                            reset |-> t + window,
                            current |-> current_requests + 1],
             members |-> r.members,
             deadline |-> r.deadline]
    ELSE [is_limited |-> FALSE,
          rate_info |-> [limit |-> limit, remaining |-> limit - 1,
                         reset |-> t + window],
          members |-> s,
          deadline |-> dl]

\* block_ip that stores nothing
block_ip_noop(up, bt, ip, duration, t) == bt

\* block_ip whose key lives one second too long
block_ip_late(up, bt, ip, duration, t) ==
    IF up /\ duration > 0
    THEN [bt EXCEPT ![ip] = t + duration + 1]
    ELSE bt

\* RateLimiter.block_ip: setex(block_key, duration, "blocked"); an error of
\* the store (unreachable, or a duration that is not positive) is swallowed
block_ip(up, bt, ip, duration, t) ==
    IF up /\ duration > 0
    THEN [bt EXCEPT ![ip] = t + duration]
    ELSE bt

\* is_ip_blocked that reports a block when the store fails
is_ip_blocked_closed(up, bt, ip) == ~up \/ bt[ip] # 0

\* is_ip_blocked that never finds the key
is_ip_blocked_never(up, bt, ip) == FALSE

\* RateLimiter.is_ip_blocked
is_ip_blocked(up, bt, ip) == up /\ bt[ip] # 0

\* RateLimiter.is_ip_whitelisted
is_ip_whitelisted(up, wl, ip) == up /\ ip \in wl

----------------------------------------------------------------------------
(* SecurityMonitor (backend/app/services/security_monitor.py) *)

\* the caps, thresholds and scan depths are scaled down; 1000, 5, 100, 10 and
\* 200 in the code
RECENT_CAP == 3
BRUTE_FORCE_THRESHOLD == 2
BRUTE_FORCE_SCAN == 3
RATE_ABUSE_THRESHOLD == 2
RATE_ABUSE_SCAN == 3
\* the number of events a read asks for; 100 and 50 in the code
READ_LIMIT == 3
RETENTION == 86400
BRUTE_FORCE_WINDOW == 600
RATE_ABUSE_WINDOW == 3600
HOUR == 3600

Users == {1}
\* the address the security routes put in their admin_action events
Localhost == <<"127.0.0.1">>
MonIPs == IPs \cup {Localhost}
Min(a, b) == IF a <= b THEN a ELSE b

\* a SecurityEvent as stored; user_id 0 is None; id tells apart the events of
\* a run and is not stored; count and target are the details of a synthesized
\* event
SecurityEvent(id, event_type, t, ip, user_id, username, severity, count, target, endpoint) ==
    [id |-> id, event_type |-> event_type, timestamp |-> t, ip_address |-> ip,
     user_id |-> user_id, username |-> username, severity |-> severity,
     count |-> count, target |-> target, endpoint |-> endpoint]

\* `"auth" in endpoint`: the pieces of a path that hold the letters auth
auth_in(endpoint) == \E i \in 1..Len(endpoint) : endpoint[i] \in {"auth", "/auth"}

\* the severity log_rate_limit_exceeded gives to an event of the endpoint
severity_of(endpoint) == IF auth_in(endpoint) THEN "high" ELSE "medium"

\* the events of log_failed_login, log_rate_limit_exceeded and log_admin_action
failed_login(id, ip, username, t) ==
    SecurityEvent(id, "failed_login", t, ip, 0, username, "medium", 0, username,
                  <<"/auth", "/login">>)

rate_limit_exceeded(id, ip, endpoint, t) ==
    SecurityEvent(id, "rate_limit_exceeded", t, ip, 0, "", severity_of(endpoint), 0, "",
                  endpoint)

admin_action(id, ip, user_id, username, t) ==
    SecurityEvent(id, "admin_action", t, ip, user_id, username, "medium", 0, "", <<>>)

NoMon ==
    [recent |-> <<>>,
     ip |-> [i \in MonIPs |-> <<>>], ipTtl |-> [i \in MonIPs |-> 0],
     user |-> [u \in Users |-> <<>>], userTtl |-> [u \in Users |-> 0],
     evkeys |-> {}, counters |-> {}]

\* the key of the event's own entry, f"security_event:{timestamp.timestamp()}",
\* and the event_id that delete_event compares with, the ISO timestamp without
\* its punctuation; the id stands for the microseconds of the timestamp
event_key(e) == <<"security_event:", "epoch", e.id>>
event_id(e) == <<"iso", e.id>>

\* lpush, ltrim(key, 0, n - 1), lrange(key, 0, n - 1)
LPush(l, e) == <<e>> \o l
LTrim(l, n) == SubSeq(l, 1, Min(n, Len(l)))
LRange(l, n) == SubSeq(l, 1, Min(n, Len(l)))

\* incr and expire of the counter of a type in the hour of t
Incr(cs, type, t) ==
    LET hr == t \div HOUR
        old == {c \in cs : c.type = type /\ c.hour = hr}
        n == IF old = {} THEN 0 ELSE (CHOOSE c \in old : TRUE).n
    IN (cs \ old) \cup {[type |-> type, hour |-> hr, n |-> n + 1, ttl |-> t + RETENTION]}

\* the store commands of log_security_event for the event e at time t
store_event(m, e, t) ==
    [recent |-> LTrim(LPush(m.recent, e), RECENT_CAP),
     ip |-> [m.ip EXCEPT ![e.ip_address] = LPush(@, e)],
     ipTtl |-> [m.ipTtl EXCEPT ![e.ip_address] = t + RETENTION],
     user |-> IF e.user_id # 0 THEN [m.user EXCEPT ![e.user_id] = LPush(@, e)] ELSE m.user,
     userTtl |-> IF e.user_id # 0 THEN [m.userTtl EXCEPT ![e.user_id] = t + RETENTION]
                 ELSE m.userTtl,
     evkeys |-> {k \in m.evkeys : k.key # event_key(e)}
                    \cup {[key |-> event_key(e), ttl |-> t + RETENTION]},
     counters |-> Incr(m.counters, e.event_type, t)]

\* get_ip_events(ip, limit)
get_ip_events(m, ip, limit) == LRange(m.ip[ip], limit)

\* the events of `type` among evs with a timestamp after window_start
RecentOfType(evs, type, window_start) ==
    {i \in 1..Len(evs) : evs[i].event_type = type /\ evs[i].timestamp > window_start}

\* _check_brute_force_pattern: the synthesized events, none or one
check_brute_force_pattern(m, e, t) ==
    LET n == Cardinality(RecentOfType(get_ip_events(m, e.ip_address, BRUTE_FORCE_SCAN),
                                      "failed_login", t - BRUTE_FORCE_WINDOW))
    IN IF n >= BRUTE_FORCE_THRESHOLD
       THEN <<SecurityEvent(e.id + 1, "brute_force_attempt", t, e.ip_address, 0, "",
                            "critical", n, e.username, <<>>)>>
       ELSE <<>>

\* _check_rate_limit_pattern: the synthesized events, none or one
check_rate_limit_pattern(m, e, t) ==
    LET n == Cardinality(RecentOfType(get_ip_events(m, e.ip_address, RATE_ABUSE_SCAN),
                                      "rate_limit_exceeded", t - RATE_ABUSE_WINDOW))
    IN IF n >= RATE_ABUSE_THRESHOLD
       THEN <<SecurityEvent(e.id + 1, "suspicious_request", t, e.ip_address, 0, "",
                            "high", n, "", <<>>)>>
       ELSE <<>>

\* a detector that also blocks the address it reports
analyze_and_block(m, bt, e, t, conn) ==
    LET syn == IF ~conn THEN <<>>
               ELSE IF e.event_type = "failed_login" THEN check_brute_force_pattern(m, e, t)
               ELSE IF e.event_type = "rate_limit_exceeded"
                    THEN check_rate_limit_pattern(m, e, t)
               ELSE <<>>
    IN [events |-> syn,
        blockTtl |-> IF syn # <<>>
                     THEN [bt EXCEPT ![e.ip_address] = t + RATE_LIMIT_BLOCK_DURATION]
                     ELSE bt]

\* a detector that checks the patterns on the events it synthesized as well
analyze_escalations_too(m, bt, e, t, conn) ==
    [events |-> IF ~conn THEN <<>>
                ELSE IF e.event_type \in {"failed_login", "brute_force_attempt"}
                     THEN check_brute_force_pattern(m, e, t)
                ELSE IF e.event_type \in {"rate_limit_exceeded", "suspicious_request"}
                     THEN check_rate_limit_pattern(m, e, t)
                ELSE <<>>,
     blockTtl |-> bt]

\* _analyze_suspicious_patterns on the event e: the events it synthesizes and
\* what it leaves of the block keys bt
analyze_suspicious_patterns(m, bt, e, t, conn) ==
    [events |-> IF ~conn THEN <<>>
                ELSE IF e.event_type = "failed_login"
                     THEN check_brute_force_pattern(m, e, t)
                ELSE IF e.event_type = "rate_limit_exceeded"
                     THEN check_rate_limit_pattern(m, e, t)
                ELSE <<>>,
     blockTtl |-> bt]

\* the depth to which the nested calls of log_security_event are followed
MaxNesting == 3

\* log_security_event(e): store, analyze, and log_security_event of what the
\* analysis synthesized, which is stored and analyzed in its turn.  `calls`
\* counts the calls made, `cut` tells that a call was still due at MaxNesting.
RECURSIVE log_security_event_nested(_, _, _, _, _, _)
log_security_event_nested(m, bt, e, t, conn, depth) ==
    LET m1 == IF conn THEN store_event(m, e, t) ELSE m
        a == analyze_suspicious_patterns(m1, bt, e, t, conn)
    IN IF a.events = <<>> \/ depth >= MaxNesting
       THEN [mon |-> m1, blockTtl |-> a.blockTtl,
             stored |-> IF conn THEN <<e>> ELSE <<>>,
             calls |-> 1, cut |-> a.events # <<>>]
       ELSE LET r == log_security_event_nested(m1, a.blockTtl, a.events[1], t, conn,
                                               depth + 1)
            IN [mon |-> r.mon, blockTtl |-> r.blockTtl,
                stored |-> <<e>> \o r.stored,
                calls |-> 1 + r.calls, cut |-> r.cut]

\* an external call of log_security_event(e)
log_security_event(m, bt, e, t, conn) == log_security_event_nested(m, bt, e, t, conn, 0)

\* Redis drops the monitor keys whose TTL has run out at time t
expire_monitor(m, t) ==
    [recent |-> m.recent,
     ip |-> [i \in MonIPs |-> IF m.ipTtl[i] <= t THEN <<>> ELSE m.ip[i]],
     ipTtl |-> [i \in MonIPs |-> IF m.ipTtl[i] <= t THEN 0 ELSE m.ipTtl[i]],
     user |-> [u \in Users |-> IF m.userTtl[u] <= t THEN <<>> ELSE m.user[u]],
     userTtl |-> [u \in Users |-> IF m.userTtl[u] <= t THEN 0 ELSE m.userTtl[u]],
     evkeys |-> {k \in m.evkeys : k.ttl > t},
     counters |-> {c \in m.counters : c.ttl > t}]

----------------------------------------------------------------------------
(* The state of one worker inside RateLimitMiddleware.dispatch *)

\* a worker between requests; the last response stays visible in it.
\* ran: the store round trips made for the request; ok: those that succeeded;
\* wlAt, blkAt: the ip was in the whitelist / had a block key when that was
\* looked up; block_until: the expiry of the block key the request created;
\* trace: the round trips in the order made; seen: how many responses had been
\* returned when the request arrived; by: the worker; headers: the headers
\* the Gate set
\* no rate_info yet
NoInfo == [limit |-> 0, remaining |-> 0, reset |-> 0]

\* a request in dispatch: where it is, what the Limiter told, the response, and
\* for the properties what it met on its way (ttl_left: the time the block
\* key had left to live at the block check)
Idle ==
    [pc |-> "idle", ip |-> <<>>, path |-> <<>>, t |-> 0,
     is_limited_minute |-> FALSE, is_limited_hour |-> FALSE,
     status |-> 0, kind |-> "none",
     wlAt |-> FALSE, blkAt |-> FALSE, block_until |-> 0, ran |-> {}, ok |-> {},
     trace |-> <<>>, seen |-> 0, by |-> "", headers |-> {},
     rate_info_minute |-> NoInfo, rate_info_hour |-> NoInfo,
     ttl_left |-> 0, retry_after |-> 0, values |-> {}]

\* the X-RateLimit-* headers
RateLimitHeaders == {"X-RateLimit-Limit", "X-RateLimit-Remaining", "X-RateLimit-Reset"}

\* the headers dispatch sets on the response of each kind
response_headers(kind) ==
    CASE kind = "blocked" -> {"Retry-After"}
      [] kind = "limit" -> RateLimitHeaders \cup {"Retry-After"}
      [] kind = "ok" -> RateLimitHeaders
      [] OTHER -> {}

\* the rate_info the rejection of a request over its limit reports
active_rate_info(r) ==
    IF r.is_limited_minute THEN r.rate_info_minute ELSE r.rate_info_hour

\* the X-RateLimit-* headers with their values for the rate_info `info`
rate_limit_values(info) ==
    {<<"X-RateLimit-Limit", info.limit>>,
     <<"X-RateLimit-Remaining", info.remaining>>,
     <<"X-RateLimit-Reset", info.reset>>}

\* the retry_after of the body and of the Retry-After header, at time t
retry_after(r, kind, t) ==
    CASE kind = "blocked" -> RATE_LIMIT_BLOCK_DURATION
      [] kind = "limit" -> active_rate_info(r).reset - t
      [] OTHER -> 0

\* the headers of the response with their values
response_values(r, kind, t) ==
    CASE kind = "blocked" -> {<<"Retry-After", retry_after(r, kind, t)>>}
      [] kind = "limit" -> rate_limit_values(active_rate_info(r))
                               \cup {<<"Retry-After", retry_after(r, kind, t)>>}
      [] kind = "ok" -> rate_limit_values(r.rate_info_minute)
      [] OTHER -> {}

\* the response of dispatch: 200 is call_next's answer, 429 a rejection
Respond(r, status, kind) ==
    [r EXCEPT !.pc = "idle", !.status = status, !.kind = kind,
              !.headers = response_headers(kind),
              !.retry_after = retry_after(r, kind, now),
              !.values = response_values(r, kind, now)]

\* one more store round trip of the request r
Trip(r, name) ==
    [r EXCEPT !.ran = @ \cup {name}, !.ok = IF storeUp THEN @ \cup {name} ELSE @,
              !.trace = Append(@, name)]

NoAdmin ==
    [op |-> "none", pc |-> "idle", ip |-> <<>>, result |-> "none",
     was_blocked |-> FALSE, rate_keys |-> {},
     event_type |-> "", older_than_hours |-> 0, events |-> <<>>,
     events_to_keep |-> <<>>, cleared_count |-> 0, event_id |-> <<>>,
     found |-> <<>>, seen |-> 0, given |-> {}, before |-> NoMon,
     failed |-> FALSE, blocked_ips |-> {}]

\* what the properties remember of a run: the last successful block(ip, d)
\* of each ip as <<time, d>>, the responses given so far, the direct
\* Limiter calls on one key, the calls of the monitor's record operations
\* (rec), every event the monitor stored (events), the ids of the events a
\* clear or a delete chose to remove (selected), the calls of check_rate_limit
\* that returned (checks)
NoHist ==
    [blk |-> [ip \in IPs |-> <<>>], log |-> <<>>, calls |-> <<>>,
     key |-> <<>>, limit |-> 0, window |-> 0,
     rec |-> <<>>, events |-> <<>>, selected |-> {}, checks |-> <<>>]

\* no key "rate:...": value 0; deadline 0 on a key that exists: no expiry
NoKey == [value |-> 0, deadline |-> 0]

\* Redis drops the counter key when its TTL has run out at time t
expire_counter(k, t) ==
    IF k.value # 0 /\ k.deadline # 0 /\ k.deadline <= t THEN NoKey ELSE k

\* a worker outside check_rate_limit
NoCall == [pc |-> "idle", current |-> 0, t |-> 0]

Start(n) ==
    /\ now = 1000
    /\ storeUp = TRUE
    /\ connected = TRUE
    /\ zset = [k \in RateKeys |-> {}]
    /\ zttl = [k \in RateKeys |-> 0]
    /\ blockTtl = [ip \in IPs |-> 0]
    /\ whitelist = {}
    /\ wk = [w \in Workers |-> Idle]
    /\ adm = NoAdmin
    /\ mon = NoMon
    /\ left = n
    /\ hist = NoHist
    /\ counter = NoKey
    /\ crl = [w \in Workers |-> NoCall]

Init == Start(MaxEvents)

----------------------------------------------------------------------------
(* The clock and the store *)

\* no request and no admin route is under way
Quiet == adm.pc = "idle" /\ \A w \in Workers : wk[w].pc = "idle"

\* block keys dropped a minute before their TTL has run out
expire_blocks_early(bt, t) ==
    [ip \in IPs |-> IF bt[ip] <= t + MINUTE_WINDOW THEN 0 ELSE bt[ip]]

\* Redis drops the block keys whose TTL has run out at time t
expire_blocks(bt, t) == [ip \in IPs |-> IF bt[ip] <= t THEN 0 ELSE bt[ip]]

\* time passes; Redis drops the keys whose TTL has run out
Tick(d) ==
    /\ left > 0
    /\ left' = left - 1
    /\ now' = now + d
    /\ zttl' = [k \in RateKeys |-> IF zttl[k] <= now' THEN 0 ELSE zttl[k]]
    /\ zset' = [k \in RateKeys |-> IF zttl[k] <= now' THEN {} ELSE zset[k]]
    /\ blockTtl' = expire_blocks(blockTtl, now')
    /\ mon' = expire_monitor(mon, now')
    /\ counter' = expire_counter(counter, now')
    /\ UNCHANGED <<storeUp, connected, whitelist, wk, adm, hist, crl>>

\* the store becomes unreachable: every command raises
StoreDown ==
    /\ storeUp
    /\ left > 0
    /\ left' = left - 1
    /\ storeUp' = FALSE
    /\ UNCHANGED <<now, counter, crl, connected, zset, zttl, blockTtl, whitelist, wk, adm, hist>>
    /\ UNCHANGED mon

\* the store is reachable again
StoreBack ==
    /\ ~storeUp
    /\ storeUp' = TRUE
    /\ UNCHANGED <<now, counter, crl, connected, zset, zttl, blockTtl, whitelist, wk, adm, left, hist>>
    /\ UNCHANGED mon

----------------------------------------------------------------------------
(* RateLimitMiddleware.dispatch, one action per store round trip *)

\* worker w answers with r
Answer(w, r) ==
    /\ wk' = [wk EXCEPT ![w] = r]
    /\ hist' = [hist EXCEPT !.log = Append(@, r)]

\* worker w goes on with r
Goto(w, r) ==
    /\ wk' = [wk EXCEPT ![w] = r]
    /\ hist' = hist

\* the request arrives: the exemptions, then the whitelist check
Receive(w, ip, path) ==
    /\ wk[w].pc = "idle"
    /\ left > 0
    /\ left' = left - 1
    /\ LET r == [Idle EXCEPT !.ip = ip, !.path = path, !.t = now,
                              !.seen = Len(hist.log), !.by = w] IN
       IF ~RATE_LIMIT_ENABLED \/ path \in ExemptPaths
       THEN Answer(w, Respond(r, 200, "exempt"))
       ELSE LET q == [Trip(r, "wl") EXCEPT !.wlAt = ip \in whitelist]
            IN IF is_ip_whitelisted(storeUp, whitelist, ip)
               THEN Answer(w, Respond(q, 200, "whitelisted"))
               ELSE Goto(w, [q EXCEPT !.pc = "blocked"])
    /\ UNCHANGED <<now, counter, crl, storeUp, connected, zset, zttl, blockTtl, whitelist, adm>>
    /\ UNCHANGED mon

\* the block check
CheckBlocked(w) ==
    /\ wk[w].pc = "blocked"
    /\ LET q == [Trip(wk[w], "blk") EXCEPT
                     !.blkAt = blockTtl[wk[w].ip] # 0,
                     !.ttl_left = IF blockTtl[wk[w].ip] # 0
                                  THEN blockTtl[wk[w].ip] - now ELSE 0]
       IN IF is_ip_blocked(storeUp, blockTtl, wk[w].ip)
          THEN Answer(w, Respond(q, 429, "blocked"))
          ELSE Goto(w, [q EXCEPT !.pc = "minute"])
    /\ UNCHANGED <<now, counter, crl, storeUp, connected, zset, zttl, blockTtl, whitelist, adm, left>>
    /\ UNCHANGED mon

\* the minute-based limit
LimitMinute(w) ==
    /\ wk[w].pc = "minute"
    /\ LET k == key_minute(wk[w].path, wk[w].ip)
           lim == get_rate_limits(wk[w].path)
           r == is_rate_limited(storeUp, zset[k], zttl[k], now, lim[1], lim[2])
       IN /\ zset' = [zset EXCEPT ![k] = r.members]
          /\ zttl' = [zttl EXCEPT ![k] = r.deadline]
          /\ Goto(w, [Trip(wk[w], "min") EXCEPT !.pc = "hour",
                                                !.is_limited_minute = r.is_limited,
                                                !.rate_info_minute = r.rate_info])
    /\ UNCHANGED <<now, counter, crl, storeUp, connected, blockTtl, whitelist, adm, left>>
    /\ UNCHANGED mon

\* the hour-based limit, then the decision
LimitHour(w) ==
    /\ wk[w].pc = "hour"
    /\ LET k == key_hour(wk[w].path, wk[w].ip)
           lim == get_rate_limits(wk[w].path)
           r == is_rate_limited(storeUp, zset[k], zttl[k], now, lim[3], lim[4])
           q == [Trip(wk[w], "hour") EXCEPT !.is_limited_hour = r.is_limited,
                                            !.rate_info_hour = r.rate_info]
       IN /\ zset' = [zset EXCEPT ![k] = r.members]
          /\ zttl' = [zttl EXCEPT ![k] = r.deadline]
          /\ IF q.is_limited_minute \/ q.is_limited_hour
             THEN IF /\ Contains(key_minute(q.path, q.ip), <<"auth", ":ip:">>)
                     /\ q.is_limited_minute
                  THEN Goto(w, [q EXCEPT !.pc = "block"])
                  ELSE Answer(w, Respond(q, 429, "limit"))
             ELSE Answer(w, Respond(q, 200, "ok"))
    /\ UNCHANGED <<now, counter, crl, storeUp, connected, blockTtl, whitelist, adm, left>>
    /\ UNCHANGED mon

\* block_ip(ip) for an authentication endpoint over its minute limit, then
\* the rejection
AutoBlock(w) ==
    /\ wk[w].pc = "block"
    /\ blockTtl' = block_ip(storeUp, blockTtl, wk[w].ip, RATE_LIMIT_BLOCK_DURATION, now)
    /\ LET r == Respond([Trip(wk[w], "auto") EXCEPT
                              !.block_until = IF storeUp THEN blockTtl'[wk[w].ip] ELSE 0],
                        429, "limit") IN
       /\ wk' = [wk EXCEPT ![w] = r]
       /\ hist' = [hist EXCEPT !.log = Append(@, r),
                               !.blk[wk[w].ip] =
                                   IF storeUp THEN <<now, RATE_LIMIT_BLOCK_DURATION>> ELSE @]
    /\ UNCHANGED <<now, counter, crl, storeUp, connected, zset, zttl, whitelist, adm, left>>
    /\ UNCHANGED mon

----------------------------------------------------------------------------
(* The admin routes of api/routes/rate_limits.py, one action per round trip *)

\* RedisService.is_connected: the flag, then a ping
is_connected(conn, up) == conn /\ up

\* the keys that exist in the store
ExistingKeys ==
    {k \in RateKeys : zset[k] # {}} \cup {block_key(ip) : ip \in {i \in IPs : blockTtl[i] # 0}}

\* a keys() that finds nothing
keys_of_ip_none(ip) == {}

\* client.keys(f"*:{ip}:*")
keys_of_ip(ip) == {k \in ExistingKeys : GlobColonIp(k, ip)}

\* the route fails with HTTP 500
AdminError == [adm EXCEPT !.pc = "idle", !.result = "error"]

\* the first step of a route that tests is_connected()
AdminStart(op, ip, first) ==
    /\ adm.pc = "idle"
    /\ left > 0
    /\ left' = left - 1
    /\ connected' = is_connected(connected, storeUp)
    /\ adm' = IF is_connected(connected, storeUp)
              THEN [NoAdmin EXCEPT !.op = op, !.ip = ip, !.pc = first]
              ELSE [NoAdmin EXCEPT !.op = op, !.ip = ip, !.result = "error"]
    /\ UNCHANGED <<now, counter, crl, storeUp, zset, zttl, blockTtl, whitelist, wk, hist>>
    /\ UNCHANGED mon

\* client.delete(*ks)
DeleteKeys(ks) ==
    /\ zset' = [k \in RateKeys |-> IF k \in ks THEN {} ELSE zset[k]]
    /\ zttl' = [k \in RateKeys |-> IF k \in ks THEN 0 ELSE zttl[k]]
    /\ blockTtl' = [ip \in IPs |-> IF block_key(ip) \in ks THEN 0 ELSE blockTtl[ip]]
    /\ hist' = [hist EXCEPT !.blk = [ip \in IPs |->
                                       IF block_key(ip) \in ks THEN <<>> ELSE @[ip]]]

\* POST /rate-limits/block-ip: block_suspicious_ip(ip, duration)
AdminBlock(ip, duration) ==
    /\ adm.pc = "idle"
    /\ left > 0
    /\ left' = left - 1
    /\ blockTtl' = block_ip(storeUp, blockTtl, ip, duration, now)
    /\ adm' = [NoAdmin EXCEPT !.op = "block", !.ip = ip, !.result = "ok"]
    /\ hist' = [hist EXCEPT !.blk[ip] =
                        IF storeUp /\ duration > 0 THEN <<now, duration>> ELSE @]
    /\ UNCHANGED <<now, counter, crl, storeUp, connected, zset, zttl, whitelist, wk>>
    /\ UNCHANGED mon

\* DELETE /rate-limits/unblock-ip/{ip}
UnblockStart(ip) == AdminStart("unblock", ip, "exists")

UnblockExists ==
    /\ adm.op = "unblock" /\ adm.pc = "exists"
    /\ adm' = IF storeUp
              THEN [adm EXCEPT !.pc = "delete", !.was_blocked = blockTtl[adm.ip] # 0]
              ELSE AdminError
    /\ UNCHANGED <<now, counter, crl, storeUp, connected, zset, zttl, blockTtl, whitelist, wk, left, hist>>
    /\ UNCHANGED mon

UnblockDelete ==
    /\ adm.op = "unblock" /\ adm.pc = "delete"
    /\ IF storeUp
       THEN /\ DeleteKeys({block_key(adm.ip)})
            /\ adm' = [adm EXCEPT !.pc = "keys"]
       ELSE /\ adm' = AdminError
            /\ UNCHANGED <<zset, zttl, blockTtl, hist>>
    /\ UNCHANGED <<now, counter, crl, storeUp, connected, whitelist, wk, left>>
    /\ UNCHANGED mon

UnblockKeys ==
    /\ adm.op = "unblock" /\ adm.pc = "keys"
    /\ adm' = IF ~storeUp THEN AdminError
              ELSE IF keys_of_ip(adm.ip) = {}
              THEN [adm EXCEPT !.pc = "idle", !.result = "ok"]
              ELSE [adm EXCEPT !.pc = "delkeys", !.rate_keys = keys_of_ip(adm.ip)]
    /\ UNCHANGED <<now, counter, crl, storeUp, connected, zset, zttl, blockTtl, whitelist, wk, left, hist>>
    /\ UNCHANGED mon

UnblockDelKeys ==
    /\ adm.op = "unblock" /\ adm.pc = "delkeys"
    /\ IF storeUp
       THEN /\ DeleteKeys(adm.rate_keys)
            /\ adm' = [adm EXCEPT !.pc = "idle", !.result = "ok", !.rate_keys = {}]
       ELSE /\ adm' = AdminError
            /\ UNCHANGED <<zset, zttl, blockTtl, hist>>
    /\ UNCHANGED <<now, counter, crl, storeUp, connected, whitelist, wk, left>>
    /\ UNCHANGED mon

\* POST /rate-limits/whitelist
WhitelistStart(ip) == AdminStart("whitelist", ip, "sadd")

WhitelistSadd ==
    /\ adm.op = "whitelist" /\ adm.pc = "sadd"
    /\ IF storeUp
       THEN /\ whitelist' = whitelist \cup {adm.ip}
            /\ adm' = [adm EXCEPT !.pc = "delete"]
       ELSE /\ adm' = AdminError
            /\ UNCHANGED whitelist
    /\ UNCHANGED <<now, counter, crl, storeUp, connected, zset, zttl, blockTtl, wk, left, hist>>
    /\ UNCHANGED mon

WhitelistDelete ==
    /\ adm.op = "whitelist" /\ adm.pc = "delete"
    /\ IF storeUp
       THEN /\ DeleteKeys({block_key(adm.ip)})
            /\ adm' = [adm EXCEPT !.pc = "keys"]
       ELSE /\ adm' = AdminError
            /\ UNCHANGED <<zset, zttl, blockTtl, hist>>
    /\ UNCHANGED <<now, counter, crl, storeUp, connected, whitelist, wk, left>>
    /\ UNCHANGED mon

WhitelistKeys ==
    /\ adm.op = "whitelist" /\ adm.pc = "keys"
    /\ adm' = IF ~storeUp THEN AdminError
              ELSE IF keys_of_ip(adm.ip) = {}
              THEN [adm EXCEPT !.pc = "idle", !.result = "ok"]
              ELSE [adm EXCEPT !.pc = "delkeys", !.rate_keys = keys_of_ip(adm.ip)]
    /\ UNCHANGED <<now, counter, crl, storeUp, connected, zset, zttl, blockTtl, whitelist, wk, left, hist>>
    /\ UNCHANGED mon

WhitelistDelKeys ==
    /\ adm.op = "whitelist" /\ adm.pc = "delkeys"
    /\ IF storeUp
       THEN /\ DeleteKeys(adm.rate_keys)
            /\ adm' = [adm EXCEPT !.pc = "idle", !.result = "ok", !.rate_keys = {}]
       ELSE /\ adm' = AdminError
            /\ UNCHANGED <<zset, zttl, blockTtl, hist>>
    /\ UNCHANGED <<now, counter, crl, storeUp, connected, whitelist, wk, left>>
    /\ UNCHANGED mon

\* RateLimiter.add_to_whitelist(ip): sadd, an error is logged and swallowed
add_to_whitelist(up, wl, ip) == IF up THEN wl \cup {ip} ELSE wl

\* a whitelisting that is one sadd: RateLimiter.add_to_whitelist(ip) when
\* op is "add_to_whitelist", add_to_whitelist(ip) of unblock_ip.py when it is
\* "script_whitelist"
SaddWhitelist(op, ip) ==
    /\ adm.pc = "idle"
    /\ left > 0
    /\ left' = left - 1
    /\ whitelist' = add_to_whitelist(storeUp, whitelist, ip)
    /\ adm' = [NoAdmin EXCEPT !.op = op, !.ip = ip,
                              !.result = IF storeUp THEN "ok" ELSE "error"]
    /\ UNCHANGED <<now, counter, crl, storeUp, connected, zset, zttl, blockTtl, wk, mon, hist>>

\* DELETE /rate-limits/whitelist/{ip}
UnwhitelistStart(ip) == AdminStart("unwhitelist", ip, "sismember")

UnwhitelistIsMember ==
    /\ adm.op = "unwhitelist" /\ adm.pc = "sismember"
    /\ adm' = IF storeUp
              THEN [adm EXCEPT !.pc = "srem", !.was_blocked = adm.ip \in whitelist]
              ELSE AdminError
    /\ UNCHANGED <<now, counter, crl, storeUp, connected, zset, zttl, blockTtl, whitelist, wk, left, hist>>
    /\ UNCHANGED mon

UnwhitelistSrem ==
    /\ adm.op = "unwhitelist" /\ adm.pc = "srem"
    /\ IF storeUp
       THEN /\ whitelist' = whitelist \ {adm.ip}
            /\ adm' = [adm EXCEPT !.pc = "idle", !.result = "ok"]
       ELSE /\ adm' = AdminError
            /\ UNCHANGED whitelist
    /\ UNCHANGED <<now, counter, crl, storeUp, connected, zset, zttl, blockTtl, wk, left, hist>>
    /\ UNCHANGED mon

\* POST /rate-limits/clear-all: scan_iter over the five patterns, delete
ClearAllPatterns == {<<c, ":ip:">> : c \in {"auth", "api", "upload", "admin", "blocked"}}

\* the glob pre* on a key
MatchesPrefix(key, pre) == Len(key) >= Len(pre) /\ SubSeq(key, 1, Len(pre)) = pre

ClearAllStart == AdminStart("clearall", <<>>, "scan")

ClearAllScan ==
    /\ adm.op = "clearall" /\ adm.pc = "scan"
    /\ IF storeUp
       THEN /\ DeleteKeys({k \in ExistingKeys :
                              \E pre \in ClearAllPatterns : MatchesPrefix(k, pre)})
            /\ adm' = [adm EXCEPT !.pc = "idle", !.result = "ok"]
       ELSE /\ adm' = AdminError
            /\ UNCHANGED <<zset, zttl, blockTtl, hist>>
    /\ UNCHANGED <<now, counter, crl, storeUp, connected, whitelist, wk, left>>
    /\ UNCHANGED mon

\* unblock_ip.py: f'rate_limit:blocked:{ip}'
script_block_key(ip) == <<"rate_limit", ":blocked:">> \o ip

\* unblock_ip.py: the glob f'rate_limit:*:{ip}:*' on a key
script_rate_glob(key, ip) == key[1] = "rate_limit" /\ GlobColonIp(key, ip)

\* unblock_ip.py get_blocked_ips() and rate_limiting_status.py: the keys
\* 'rate_limit:blocked:*' with that prefix taken off
get_blocked_ips ==
    {SubSeq(k, 3, Len(k)) :
        k \in {x \in ExistingKeys : MatchesPrefix(x, <<"rate_limit", ":blocked:">>)}}

\* python unblock_ip.py without arguments: the listing of get_blocked_ips()
ScriptList ==
    /\ adm.pc = "idle"
    /\ left > 0
    /\ left' = left - 1
    /\ adm' = [NoAdmin EXCEPT !.op = "script_list",
                              !.blocked_ips = IF storeUp THEN get_blocked_ips ELSE {},
                              !.result = IF storeUp THEN "ok" ELSE "error"]
    /\ UNCHANGED <<now, counter, crl, storeUp, connected, zset, zttl, blockTtl, whitelist, wk, mon, hist>>

\* python unblock_ip.py unblock <ip>: unblock_ip(ip)
ScriptUnblock(ip) ==
    /\ adm.pc = "idle"
    /\ left > 0
    /\ left' = left - 1
    /\ IF storeUp
       THEN /\ DeleteKeys({script_block_key(ip)}
                            \cup {k \in ExistingKeys : script_rate_glob(k, ip)})
            /\ adm' = [NoAdmin EXCEPT !.op = "script_unblock", !.ip = ip,
                                      !.was_blocked = script_block_key(ip) \in ExistingKeys,
                                      !.result = "ok"]
       ELSE /\ adm' = [NoAdmin EXCEPT !.op = "script_unblock", !.ip = ip,
                                      !.result = "error"]
            /\ UNCHANGED <<zset, zttl, blockTtl, hist>>
    /\ UNCHANGED <<now, counter, crl, storeUp, connected, whitelist, wk, mon>>

----------------------------------------------------------------------------
(* The operations of SecurityMonitor *)

\* the id of the next event of a run
NextId == 2 * Len(hist.rec) + 1

\* log_security_event(e)
LogEvent(e) ==
    /\ LET conn == is_connected(connected, storeUp)
           r == log_security_event(mon, blockTtl, e, now, conn)
       IN /\ connected' = conn
          /\ mon' = r.mon
          /\ blockTtl' = r.blockTtl
          /\ hist' = [hist EXCEPT
                        !.rec = Append(@, [e |-> e, t |-> now, conn |-> conn,
                                           up |-> storeUp, stored |-> r.stored,
                                           calls |-> r.calls, cut |-> r.cut]),
                        !.events = @ \o r.stored]
    /\ UNCHANGED <<now, counter, crl, storeUp, zset, zttl, whitelist, wk>>

\* a call of one of the log_* methods
Record(e) ==
    /\ left > 0
    /\ left' = left - 1
    /\ LogEvent(e)
    /\ UNCHANGED adm

\* log_failed_login(ip, username)
RecordFailedLogin(ip, username) == Record(failed_login(NextId, ip, username, now))

\* log_rate_limit_exceeded(ip, endpoint)
RecordRateLimitExceeded(ip, endpoint) ==
    Record(rate_limit_exceeded(NextId, ip, endpoint, now))

\* log_admin_action(admin_user_id, admin_username, ..., ip)
RecordAdminAction(ip, user_id, username) ==
    Record(admin_action(NextId, ip, user_id, username, now))

\* lpush(key, *values): the values are pushed one after the other
LPushAll(l, values) == [i \in 1..Len(values) |-> values[Len(values) + 1 - i]] \o l

\* the loop body of clear_events: "" and 0 stand for a filter not given
should_keep(e, event_type, older_than_hours, t) ==
    ~ ( \/ event_type # "" /\ e.event_type = event_type
        \/ older_than_hours # 0 /\ e.timestamp < t - older_than_hours * HOUR )

\* a clear that drops the hourly counters whatever its filters
clears_counters_always(event_type, older_than_hours) == TRUE

\* `if not event_type and not older_than_hours`: the counters go as well
clears_counters(event_type, older_than_hours) ==
    event_type = "" /\ older_than_hours = 0

\* where clear_events goes on after its work on the recent list
AfterList ==
    IF clears_counters(adm.event_type, adm.older_than_hours) THEN "counters" ELSE "log"

\* DELETE /security/events/clear: clear_events(event_type, older_than_hours);
\* `given` names the arguments the caller passed, a filter not passed is None,
\* which the tests of clear_events take like "" and 0
ClearStart(event_type, older_than_hours, given) ==
    /\ adm.pc = "idle"
    /\ left > 0
    /\ left' = left - 1
    /\ connected' = is_connected(connected, storeUp)
    /\ adm' = [NoAdmin EXCEPT
                 !.op = "clear", !.event_type = event_type,
                 !.older_than_hours = older_than_hours, !.seen = Len(hist.rec),
                 !.given = given, !.before = mon,
                 !.failed = ~is_connected(connected, storeUp),
                 !.pc = IF ~is_connected(connected, storeUp) THEN "log"
                        ELSE IF event_type # "" \/ older_than_hours # 0 THEN "lrange"
                        ELSE "llen"]
    /\ UNCHANGED <<now, counter, crl, storeUp, zset, zttl, blockTtl, whitelist, wk, mon, hist>>

\* clear_events gives up: the except branch returns 0
ClearFail ==
    /\ adm' = [adm EXCEPT !.pc = "log", !.cleared_count = 0, !.failed = TRUE]
    /\ UNCHANGED <<mon, hist>>

\* lrange("security_events:recent", 0, -1) and the filter loop
ClearLrange ==
    /\ adm.op = "clear" /\ adm.pc = "lrange"
    /\ IF storeUp
       THEN LET events == mon.recent
                Keep(e) == should_keep(e, adm.event_type, adm.older_than_hours, now)
                events_to_keep == SelectSeq(events, Keep)
                cleared_count == Len(events) - Len(events_to_keep)
            IN /\ adm' = [adm EXCEPT !.events = events,
                                     !.events_to_keep = events_to_keep,
                                     !.cleared_count = cleared_count,
                                     !.pc = IF cleared_count > 0 THEN "delete"
                                            ELSE AfterList]
               /\ hist' = [hist EXCEPT !.selected =
                               @ \cup {events[i].id : i \in {j \in 1..Len(events) :
                                                               ~Keep(events[j])}}]
               /\ UNCHANGED mon
       ELSE ClearFail
    /\ UNCHANGED <<now, counter, crl, storeUp, connected, zset, zttl, blockTtl, whitelist, wk, left>>

\* delete("security_events:recent")
ClearDelete ==
    /\ adm.op = "clear" /\ adm.pc = "delete"
    /\ IF storeUp
       THEN /\ mon' = [mon EXCEPT !.recent = <<>>]
            /\ adm' = [adm EXCEPT !.pc = IF adm.events_to_keep # <<>> THEN "lpush"
                                         ELSE AfterList]
            /\ UNCHANGED hist
       ELSE ClearFail
    /\ UNCHANGED <<now, counter, crl, storeUp, connected, zset, zttl, blockTtl, whitelist, wk, left>>

\* lpush("security_events:recent", *events_to_keep)
ClearLpush ==
    /\ adm.op = "clear" /\ adm.pc = "lpush"
    /\ IF storeUp
       THEN /\ mon' = [mon EXCEPT !.recent = LPushAll(@, adm.events_to_keep)]
            /\ adm' = [adm EXCEPT !.pc = AfterList]
            /\ UNCHANGED hist
       ELSE ClearFail
    /\ UNCHANGED <<now, counter, crl, storeUp, connected, zset, zttl, blockTtl, whitelist, wk, left>>

\* no filter: llen("security_events:recent")
ClearLlen ==
    /\ adm.op = "clear" /\ adm.pc = "llen"
    /\ IF storeUp
       THEN /\ adm' = [adm EXCEPT !.cleared_count = Len(mon.recent), !.pc = "delall"]
            /\ UNCHANGED <<mon, hist>>
       ELSE ClearFail
    /\ UNCHANGED <<now, counter, crl, storeUp, connected, zset, zttl, blockTtl, whitelist, wk, left>>

\* no filter: delete("security_events:recent")
ClearDelAll ==
    /\ adm.op = "clear" /\ adm.pc = "delall"
    /\ IF storeUp
       THEN /\ mon' = [mon EXCEPT !.recent = <<>>]
            /\ adm' = [adm EXCEPT !.pc = AfterList]
            /\ hist' = [hist EXCEPT !.selected =
                            @ \cup {mon.recent[i].id : i \in 1..Len(mon.recent)}]
       ELSE ClearFail
    /\ UNCHANGED <<now, counter, crl, storeUp, connected, zset, zttl, blockTtl, whitelist, wk, left>>

\* no filter: keys("security_counters:*") and delete(*counter_keys)
ClearCounters ==
    /\ adm.op = "clear" /\ adm.pc = "counters"
    /\ IF storeUp
       THEN /\ mon' = [mon EXCEPT !.counters = {}]
            /\ adm' = [adm EXCEPT !.pc = "log"]
            /\ UNCHANGED hist
       ELSE ClearFail
    /\ UNCHANGED <<now, counter, crl, storeUp, connected, zset, zttl, blockTtl, whitelist, wk, left>>

\* the route's log_admin_action(..., ip_address="127.0.0.1") and its response
AdminLog ==
    /\ adm.op \in {"clear", "delete_event"} /\ adm.pc = "log"
    /\ LogEvent(admin_action(NextId, Localhost, 1, "admin", now))
    /\ adm' = [adm EXCEPT !.pc = "idle", !.result = "ok"]
    /\ UNCHANGED left

ClearEvents ==
    \/ ClearLrange
    \/ ClearDelete
    \/ ClearLpush
    \/ ClearLlen
    \/ ClearDelAll
    \/ ClearCounters
    \/ AdminLog

\* DELETE /security/events/{event_id}: delete_event(event_id), up to its
\* delete(f"security_event:{event_id}")
DeleteEventStart(id) ==
    /\ adm.pc = "idle"
    /\ left > 0
    /\ left' = left - 1
    /\ connected' = is_connected(connected, storeUp)
    /\ IF is_connected(connected, storeUp) /\ storeUp
       THEN /\ adm' = [NoAdmin EXCEPT !.op = "delete_event", !.event_id = id,
                                      !.seen = Len(hist.rec), !.before = mon,
                                      !.pc = "lrange"]
            /\ mon' = [mon EXCEPT !.evkeys =
                           {k \in @ : k.key # <<"security_event:">> \o id}]
       ELSE /\ adm' = [NoAdmin EXCEPT !.op = "delete_event", !.event_id = id,
                                      !.before = mon, !.failed = TRUE,
                                      !.result = "not_found"]
            /\ UNCHANGED mon
    /\ UNCHANGED <<now, counter, crl, storeUp, zset, zttl, blockTtl, whitelist, wk, hist>>

\* lrange("security_events:recent", 0, -1) and the search for the event
DeleteEventLrange ==
    /\ adm.op = "delete_event" /\ adm.pc = "lrange"
    /\ IF storeUp
       THEN LET hit == {i \in 1..Len(mon.recent) : event_id(mon.recent[i]) = adm.event_id}
            IN IF hit = {}
               THEN /\ adm' = [adm EXCEPT !.pc = "idle", !.result = "not_found"]
                    /\ UNCHANGED hist
               ELSE LET i == CHOOSE i \in hit : \A j \in hit : i <= j
                    IN /\ adm' = [adm EXCEPT !.pc = "lrem", !.found = <<mon.recent[i]>>]
                       /\ hist' = [hist EXCEPT !.selected = @ \cup {mon.recent[i].id}]
       ELSE /\ adm' = [adm EXCEPT !.pc = "idle", !.result = "not_found",
                                   !.failed = TRUE]
            /\ UNCHANGED hist
    /\ UNCHANGED <<now, counter, crl, storeUp, connected, zset, zttl, blockTtl, whitelist, wk, mon, left>>

\* lrem("security_events:recent", 1, event_json)
DeleteEventLrem ==
    /\ adm.op = "delete_event" /\ adm.pc = "lrem"
    /\ IF storeUp
       THEN LET hit == {i \in 1..Len(mon.recent) : mon.recent[i] = adm.found[1]}
            IN /\ mon' = IF hit = {} THEN mon
                         ELSE LET i == CHOOSE i \in hit : \A j \in hit : i <= j
                              IN [mon EXCEPT !.recent =
                                      SubSeq(@, 1, i - 1) \o SubSeq(@, i + 1, Len(@))]
               /\ adm' = [adm EXCEPT !.pc = "log"]
       ELSE /\ adm' = [adm EXCEPT !.pc = "idle", !.result = "not_found",
                                   !.failed = TRUE]
            /\ UNCHANGED mon
    /\ UNCHANGED <<now, counter, crl, storeUp, connected, zset, zttl, blockTtl, whitelist, wk, left, hist>>

DeleteEvent ==
    \/ DeleteEventLrange
    \/ DeleteEventLrem

\* get_recent_events(limit) and get_ip_events(ip, limit) as a caller gets them
get_recent_events(m, limit, conn) == IF conn THEN LRange(m.recent, limit) ELSE <<>>

ip_events(m, ip, limit, conn) == IF conn THEN get_ip_events(m, ip, limit) ELSE <<>>

\* GET /security/events and GET /security/events/ip/{ip}
ReadEvents(ip) ==
    /\ adm.pc = "idle"
    /\ left > 0
    /\ left' = left - 1
    /\ connected' = is_connected(connected, storeUp)
    /\ adm' = [NoAdmin EXCEPT
                 !.op = "read", !.ip = ip, !.before = mon,
                 !.failed = ~is_connected(connected, storeUp),
                 !.events = get_recent_events(mon, READ_LIMIT,
                                              is_connected(connected, storeUp)),
                 !.found = ip_events(mon, ip, READ_LIMIT,
                                     is_connected(connected, storeUp)),
                 !.result = "ok"]
    /\ UNCHANGED <<now, counter, crl, storeUp, zset, zttl, blockTtl, whitelist, wk, mon, hist>>

----------------------------------------------------------------------------
(* A direct caller of RateLimiter.is_rate_limited on the key hist.key *)

LimiterCall(c) ==
    /\ left > 0
    /\ left' = left - 1
    /\ LET k == hist.key
           r == is_rate_limited(storeUp, zset[k], zttl[k], now, hist.limit, hist.window)
       IN /\ zset' = [zset EXCEPT ![k] = r.members]
          /\ zttl' = [zttl EXCEPT ![k] = r.deadline]
          /\ hist' = [hist EXCEPT !.calls =
                          Append(@, [by |-> c, t |-> now, is_limited |-> r.is_limited,
                                     rate_info |-> r.rate_info,
                                     reached |-> storeUp,
                                     before |-> zset[k]])]
    /\ UNCHANGED <<now, counter, crl, storeUp, connected, blockTtl, whitelist, wk, adm>>
    /\ UNCHANGED mon

\* one caller: its calls are a round trip apart, so time.time() has advanced
OneCaller == IF hist.calls = <<>> THEN TRUE ELSE hist.calls[Len(hist.calls)].t < now

----------------------------------------------------------------------------
(* RedisService.check_rate_limit(endpoint, user_id, limit, period_seconds) on
   one (endpoint, user_id), with limit hist.limit and period hist.window; one
   action per store round trip *)

\* CacheKeys.RATE_LIMIT.format(endpoint="upload", user_id=1, period=60)
rate_key == <<"rate:", "upload", ":", "1", ":", "60">>

\* the call of worker c returns result
CrlReturn(c, result) ==
    /\ crl' = [crl EXCEPT ![c] = NoCall]
    /\ hist' = [hist EXCEPT !.checks =
                    Append(@, [by |-> c, t |-> crl[c].t, result |-> result,
                               up |-> storeUp])]

\* current = _safe_operation(get, key); the key is over the limit: False
CrlGet(c) ==
    /\ crl[c].pc = "idle"
    /\ left > 0
    /\ left' = left - 1
    /\ connected' = is_connected(connected, storeUp)
    /\ LET current == IF is_connected(connected, storeUp) THEN counter.value ELSE 0
       IN IF current = 0
          THEN /\ crl' = [crl EXCEPT ![c] = [pc |-> "setex", current |-> 0, t |-> now]]
               /\ hist' = hist
          ELSE IF current >= hist.limit
          THEN /\ crl' = [crl EXCEPT ![c] = NoCall]
               /\ hist' = [hist EXCEPT !.checks =
                               Append(@, [by |-> c, t |-> now, result |-> FALSE,
                                          up |-> storeUp])]
          ELSE /\ crl' = [crl EXCEPT ![c] = [pc |-> "incr", current |-> current,
                                             t |-> now]]
               /\ hist' = hist
    /\ UNCHANGED <<now, storeUp, zset, zttl, blockTtl, whitelist, wk, adm, mon, counter>>

\* no key: pipeline.setex(key, period_seconds, 1), execute; True
CrlSetex(c) ==
    /\ crl[c].pc = "setex"
    /\ connected' = is_connected(connected, storeUp)
    /\ counter' = IF is_connected(connected, storeUp)
                  THEN [value |-> 1, deadline |-> now + hist.window]
                  ELSE counter
    /\ CrlReturn(c, TRUE)
    /\ UNCHANGED <<now, storeUp, zset, zttl, blockTtl, whitelist, wk, adm, mon, left>>

\* under the limit: _safe_operation(incr, key); True.  INCR on a key that is
\* not there creates it with the value 1 and no expiry.
CrlIncr(c) ==
    /\ crl[c].pc = "incr"
    /\ connected' = is_connected(connected, storeUp)
    /\ counter' = IF ~is_connected(connected, storeUp) THEN counter
                  ELSE IF counter.value = 0 THEN [value |-> 1, deadline |-> 0]
                  ELSE [counter EXCEPT !.value = @ + 1]
    /\ CrlReturn(c, TRUE)
    /\ UNCHANGED <<now, storeUp, zset, zttl, blockTtl, whitelist, wk, adm, mon, left>>

check_rate_limit(c) ==
    \/ CrlGet(c)
    \/ CrlSetex(c)
    \/ CrlIncr(c)

----------------------------------------------------------------------------
(* Specifications *)

\* a client's requests come one after the other: time.time() has advanced
SeqClient ==
    IF hist.log = <<>> THEN TRUE ELSE hist.log[Len(hist.log)].t < now

\* the steps of dispatch after the arrival of the request
Dispatch(w) ==
    \/ CheckBlocked(w)
    \/ LimitMinute(w)
    \/ LimitHour(w)
    \/ AutoBlock(w)

\* the Gate serving sequential requests while time passes
Next ==
    \/ \E d \in GateSteps : Quiet /\ Tick(d)
    \/ \E r \in Requests : SeqClient /\ Receive("w1", r[1], r[2])
    \/ Dispatch("w1")

Spec == Init /\ [][Next]_vars

\* the probes and the documentation among the requests of one address
InitExempt == Start(MaxExemptEvents)

NextExempt ==
    \/ Quiet /\ Tick(1)
    \/ SeqClient /\ Receive("w1", IP1, PathLogin)
    \/ \E p \in ExemptRequests : SeqClient /\ Receive("w1", IP1, p)
    \/ Dispatch("w1")

SpecExempt == InitExempt /\ [][NextExempt]_vars

\* the Gate while the store comes and goes and an operator blocks an address
InitOutage == Start(MaxOutageEvents)

NextOutage ==
    \/ \E d \in GateSteps : Quiet /\ Tick(d)
    \/ StoreDown
    \/ StoreBack
    \/ SeqClient /\ Receive("w1", IP1, PathLogin)
    \/ Dispatch("w1")
    \/ AdminBlock(IP1, RATE_LIMIT_BLOCK_DURATION)

SpecOutage == InitOutage /\ [][NextOutage]_vars

\* the operator routes between the requests of one address
InitAdmin == Start(MaxAdminEvents)

NextAdmin ==
    \/ \E d \in GateSteps : Quiet /\ Tick(d)
    \/ StoreDown
    \/ StoreBack
    \/ adm.pc = "idle" /\ SeqClient /\ Receive("w1", IP1, PathLogin)
    \/ Dispatch("w1")
    \/ Quiet /\ AdminBlock(IP1, MINUTE_WINDOW)
    \/ Quiet /\ UnblockStart(IP1)
    \/ UnblockExists
    \/ UnblockDelete
    \/ UnblockKeys
    \/ UnblockDelKeys
    \/ Quiet /\ WhitelistStart(IP1)
    \/ WhitelistSadd
    \/ WhitelistDelete
    \/ WhitelistKeys
    \/ WhitelistDelKeys
    \/ Quiet /\ ClearAllStart
    \/ ClearAllScan

SpecAdmin == InitAdmin /\ [][NextAdmin]_vars

\* the monitor recording the events of one address, and an operator's block
MaxMonEvents == 5
MonSteps == {1, BRUTE_FORCE_WINDOW, RATE_ABUSE_WINDOW}
Usernames == {"alice", "bob"}

InitMonitor == Start(MaxMonEvents)

NextMonitor ==
    \/ \E d \in MonSteps : Quiet /\ Tick(d)
    \/ \E u \in Usernames : RecordFailedLogin(IP1, u)
    \/ RecordRateLimitExceeded(IP1, PathLogin)
    \/ RecordAdminAction(IP1, 1, "admin")
    \/ AdminBlock(IP1, RATE_LIMIT_BLOCK_DURATION)
    \/ SeqClient /\ Receive("w1", IP1, PathLogin)
    \/ Dispatch("w1")

SpecMonitor == InitMonitor /\ [][NextMonitor]_vars

\* the monitor's record, clear and delete operations, one running while the
\* steps of another are under way
MaxClearEvents == 4
ClearSteps == {1, HOUR + 1}

InitClear == Start(MaxClearEvents)

NextClear ==
    \/ \E d \in ClearSteps : Quiet /\ Tick(d)
    \/ RecordFailedLogin(IP1, "alice")
    \/ RecordRateLimitExceeded(IP1, PathLogin)
    \/ \E event_type \in {"", "failed_login"}, older_than_hours \in {0, 1},
          given \in SUBSET {"event_type", "older_than_hours"} :
           /\ event_type # "" => "event_type" \in given
           /\ older_than_hours # 0 => "older_than_hours" \in given
           /\ ClearStart(event_type, older_than_hours, given)
    \/ ClearEvents
    \/ \E i \in 1..Len(mon.recent) : DeleteEventStart(event_id(mon.recent[i]))
    \/ DeleteEvent

SpecClear == InitClear /\ [][NextClear]_vars

\* the monitor's operations while the store comes and goes
MaxMonOutageEvents == 4

InitMonOutage == Start(MaxMonOutageEvents)

NextMonOutage ==
    \/ StoreDown
    \/ StoreBack
    \/ RecordFailedLogin(IP1, "alice")
    \/ RecordRateLimitExceeded(IP1, PathLogin)
    \/ ClearStart("failed_login", 0, {"event_type"})
    \/ ClearStart("", 0, {})
    \/ ClearEvents
    \/ \E i \in 1..Len(mon.recent) : DeleteEventStart(event_id(mon.recent[i]))
    \/ DeleteEvent
    \/ ReadEvents(IP1)

SpecMonOutage == InitMonOutage /\ [][NextMonOutage]_vars

\* the three ways of whitelisting an address that has windows and a block
MaxWhitelistEvents == 5

InitWhitelist == Start(MaxWhitelistEvents)

NextWhitelist ==
    \/ Quiet /\ Tick(1)
    \/ adm.pc = "idle" /\ SeqClient /\ Receive("w1", IP1, PathLogin)
    \/ Dispatch("w1")
    \/ Quiet /\ AdminBlock(IP1, RATE_LIMIT_BLOCK_DURATION)
    \/ Quiet /\ WhitelistStart(IP1)
    \/ WhitelistSadd
    \/ WhitelistDelete
    \/ WhitelistKeys
    \/ WhitelistDelKeys
    \/ Quiet /\ SaddWhitelist("add_to_whitelist", IP1)
    \/ Quiet /\ SaddWhitelist("script_whitelist", IP1)

SpecWhitelist == InitWhitelist /\ [][NextWhitelist]_vars

\* the whitelisting route running while requests of the address are in flight
\* in other worker processes
MaxWhitelistRaceEvents == 4

NextWhitelistRace ==
    \/ Quiet /\ Tick(1)
    \/ \E w \in Workers : Receive(w, IP1, PathLogin)
    \/ \E w \in Workers : Dispatch(w)
    \/ WhitelistStart(IP1)
    \/ WhitelistSadd
    \/ WhitelistDelete
    \/ WhitelistKeys
    \/ WhitelistDelKeys

SpecWhitelistRace == Start(MaxWhitelistRaceEvents) /\ [][NextWhitelistRace]_vars

\* the Gate, an operator's block and the command-line tool
MaxScriptEvents == 5

NextScript ==
    \/ Quiet /\ Tick(1)
    \/ SeqClient /\ Receive("w1", IP1, PathLogin)
    \/ Dispatch("w1")
    \/ \E ip \in {IP1, IP2} : Quiet /\ AdminBlock(ip, RATE_LIMIT_BLOCK_DURATION)
    \/ Quiet /\ ScriptList
    \/ Quiet /\ ScriptUnblock(IP1)

SpecScript == Start(MaxScriptEvents) /\ [][NextScript]_vars

\* the Gate serving two addresses and an operator acting on one of them
MaxFrameEvents == 5

NextFrame ==
    \/ Quiet /\ Tick(1)
    \/ adm.pc = "idle" /\ SeqClient /\ Receive("w1", IPX, PathApi)
    \/ adm.pc = "idle" /\ SeqClient /\ Receive("w1", IP6, PathLogin)
    \/ Dispatch("w1")
    \/ Quiet /\ AdminBlock(IP6, RATE_LIMIT_BLOCK_DURATION)
    \/ Quiet /\ UnblockStart(IP6)
    \/ UnblockExists
    \/ UnblockDelete
    \/ UnblockKeys
    \/ UnblockDelKeys
    \/ Quiet /\ WhitelistStart(IP6)
    \/ WhitelistSadd
    \/ WhitelistDelete
    \/ WhitelistKeys
    \/ WhitelistDelKeys
    \/ Quiet /\ UnwhitelistStart(IP6)
    \/ UnwhitelistIsMember
    \/ UnwhitelistSrem

SpecFrame == Start(MaxFrameEvents) /\ [][NextFrame]_vars

\* log_rate_limit_exceeded for the endpoints of every kind
MaxSeverityEvents == 3
PathAuthMe == <<"/api", "/auth", "/me">>
PathRegister == <<"/register">>
PathOauth == <<"/api", "/o", "auth", "/token">>
SeverityPaths == {PathLogin, PathRegister, PathAuthMe, PathOauth, PathUploads, PathApi}

InitSeverity == Start(MaxSeverityEvents)

NextSeverity ==
    \E endpoint \in SeverityPaths : RecordRateLimitExceeded(IP1, endpoint)

SpecSeverity == InitSeverity /\ [][NextSeverity]_vars

\* the Gate serving requests to endpoints of every type
MaxCategoryEvents == 5
PathLoginUpper == <<"/LOGIN">>
PathAdminUploads == <<"/admin", "/upload">>
CategoryPaths == {PathLoginUpper, PathRegister, PathAuthMe, PathOauth,
                  PathAdminUploads, PathUploads, PathAdmin, PathApi}

InitCategory == Start(MaxCategoryEvents)

NextCategory ==
    \/ Quiet /\ Tick(1)
    \/ \E ip \in {IP1, IP2}, p \in CategoryPaths : SeqClient /\ Receive("w1", ip, p)
    \/ Dispatch("w1")

SpecCategory == InitCategory /\ [][NextCategory]_vars

\* two workers serving the requests of one address, at the same time or not
InitTwo == Start(MaxTwoEvents)

NextTwo ==
    \/ \E d \in GateSteps : Quiet /\ Tick(d)
    \/ \E w \in Workers : Receive(w, IP1, PathLogin)
    \/ \E w \in Workers : Dispatch(w)

SpecTwo == InitTwo /\ [][NextTwo]_vars

\* one caller of the Limiter on one key, for a limit and a window
InitLimiter ==
    /\ now = 1000
    /\ storeUp = TRUE
    /\ connected = TRUE
    /\ zset = [k \in RateKeys |-> {}]
    /\ zttl = [k \in RateKeys |-> 0]
    /\ blockTtl = [ip \in IPs |-> 0]
    /\ whitelist = {}
    /\ wk = [w \in Workers |-> Idle]
    /\ adm = NoAdmin
    /\ mon = NoMon
    /\ counter = NoKey
    /\ crl = [w \in Workers |-> NoCall]
    /\ left = MaxCalls
    /\ \E n \in 1..MaxLimit, w \in {MINUTE_WINDOW, HOUR_WINDOW} :
          hist = [NoHist EXCEPT !.key = key_minute(PathLogin, IP1),
                                !.limit = n, !.window = w]

NextLimiter ==
    \/ \E d \in Steps : Tick(d)
    \/ OneCaller /\ LimiterCall("w1")

SpecLimiter == InitLimiter /\ [][NextLimiter]_vars

\* test_whitelist.py: the address of the key is put on the whitelist, then
\* the Limiter is called on its key
NextWhiteLimiter ==
    \/ \E d \in Steps : Tick(d)
    \/ IP1 \notin whitelist /\ SaddWhitelist("add_to_whitelist", IP1)
    \/ IP1 \in whitelist /\ OneCaller /\ LimiterCall("w1")

SpecWhiteLimiter == InitLimiter /\ [][NextWhiteLimiter]_vars

\* several workers calling check_rate_limit for one (endpoint, user_id)
MaxCounterEvents == 5

InitCounter ==
    /\ now = 1000
    /\ storeUp = TRUE
    /\ connected = TRUE
    /\ zset = [k \in RateKeys |-> {}]
    /\ zttl = [k \in RateKeys |-> 0]
    /\ blockTtl = [ip \in IPs |-> 0]
    /\ whitelist = {}
    /\ wk = [w \in Workers |-> Idle]
    /\ adm = NoAdmin
    /\ mon = NoMon
    /\ counter = NoKey
    /\ crl = [w \in Workers |-> NoCall]
    /\ left = MaxCounterEvents
    /\ \E n \in 1..MaxLimit :
          hist = [NoHist EXCEPT !.key = rate_key, !.limit = n, !.window = MINUTE_WINDOW]

NextCounter ==
    \/ \E d \in Steps : Tick(d)
    \/ \E c \in Workers : check_rate_limit(c)

SpecCounter == InitCounter /\ [][NextCounter]_vars

\* several workers calling the Limiter on one key
NextRace ==
    \/ \E d \in Steps : Tick(d)
    \/ \E c \in Workers : LimiterCall(c)

SpecRace == InitLimiter /\ [][NextRace]_vars

----------------------------------------------------------------------------
(* The Limiter called directly: hist.calls is the sequence of its calls on
   the key hist.key, with limit hist.limit and window hist.window *)

\* the calls before the i-th that are less than a window older than it
CallsInWindow(i) ==
    {j \in 1..(i - 1) : hist.calls[j].t > hist.calls[i].t - hist.window}

C2_EveryEarlierCallCounted ==
    \A i \in 1..Len(hist.calls) :
        /\ Cardinality(CallsInWindow(i)) >= hist.limit => hist.calls[i].is_limited
        /\ Cardinality({j \in CallsInWindow(i) \cup {i} : ~hist.calls[j].is_limited})
               <= hist.limit

----------------------------------------------------------------------------
(* The Gate: hist.log is the sequence of the responses of dispatch, each
   with the request, its time and what its store round trips found *)

Log == hist.log

\* the requests before the i-th, of the same address and category, that the
\* Limiter recorded in the window `name` less than `window` seconds before it
EarlierIn(i, name, window) ==
    {j \in 1..(i - 1) : /\ Log[j].ip = Log[i].ip
                        /\ category(Log[j].path) = category(Log[i].path)
                        /\ name \in Log[j].ok
                        /\ Log[j].t > Log[i].t - window}

\* the Limiter's verdicts on the i-th request are those of the two windows
\* of its (category, address), and the request is denied iff one is over
JudgedByBothWindows(i) ==
    LET lim == get_rate_limits(Log[i].path) IN
    /\ {"min", "hour"} \subseteq Log[i].ran
    /\ Log[i].is_limited_minute <=>
           Cardinality(EarlierIn(i, "min", MINUTE_WINDOW)) >= lim[1]
    /\ Log[i].is_limited_hour <=>
           Cardinality(EarlierIn(i, "hour", HOUR_WINDOW)) >= lim[3]
    /\ Log[i].status = IF Log[i].is_limited_minute \/ Log[i].is_limited_hour
                       THEN 429 ELSE 200

UnblockStep(pcs) ==
    /\ adm.op = "unblock"
    /\ adm.pc \in pcs
    /\ storeUp
    /\ adm' # adm

CheckOrder == <<"wl", "blk", "min", "hour", "auto">>

Reported(ip, type) ==
    {j \in 1..Len(mon.ip[ip]) : mon.ip[ip][j].event_type = type}

StoredInWindow(i, type, window) ==
    {j \in 1..Len(hist.events) :
        /\ hist.events[j].event_type = type
        /\ hist.events[j].ip_address = hist.rec[i].e.ip_address
        /\ hist.events[j].id <= hist.rec[i].e.id
        /\ hist.events[j].timestamp > hist.rec[i].t - window}

\* the i-th record call stored a synthesized event of `type` and `severity`
\* carrying the count n and the username `target`
Synthesized(i, type, severity, n, target) ==
    \E k \in 1..Len(hist.rec[i].stored) :
        LET s == hist.rec[i].stored[k]
        IN /\ s.event_type = type
           /\ s.severity = severity
           /\ s.count = n
           /\ s.target = target
           /\ s.ip_address = hist.rec[i].e.ip_address
           /\ (i = Len(hist.rec) =>
                  \E j \in 1..Len(mon.ip[s.ip_address]) : mon.ip[s.ip_address][j] = s)

\* C15: when a failed_login of an address has been recorded and the stored
\* failed_login events of that address in the trailing ten minutes are at
\* least the threshold, the same record call has stored a critical
\* brute_force_attempt event with that count and the username of the call,
\* and the events of the address contain it.
C15_BruteForceReportedWithCount ==
    \A i \in 1..Len(hist.rec) :
        LET n == Cardinality(StoredInWindow(i, "failed_login", BRUTE_FORCE_WINDOW))
        IN ( /\ hist.rec[i].e.event_type = "failed_login"
             /\ hist.rec[i].conn
             /\ n >= BRUTE_FORCE_THRESHOLD )
           => Synthesized(i, "brute_force_attempt", "critical", n, hist.rec[i].e.username)

\* C16: when a rate_limit_exceeded event of an address has been recorded and
\* the stored rate_limit_exceeded events of that address in the trailing hour
\* are at least the threshold, the same record call has stored a
\* suspicious_request event of severity high for that address.
C16_RateLimitAbuseReported ==
    \A i \in 1..Len(hist.rec) :
        ( /\ hist.rec[i].e.event_type = "rate_limit_exceeded"
          /\ hist.rec[i].conn
          /\ Cardinality(StoredInWindow(i, "rate_limit_exceeded", RATE_ABUSE_WINDOW))
                 >= RATE_ABUSE_THRESHOLD )
        => \E k \in 1..Len(hist.rec[i].stored) :
               /\ hist.rec[i].stored[k].event_type = "suspicious_request"
               /\ hist.rec[i].stored[k].severity = "high"
               /\ hist.rec[i].stored[k].ip_address = hist.rec[i].e.ip_address

\* C17: a record call, whatever its detectors find, leaves the block keys,
\* the whitelist and the rate-limit windows as they were.
C17_RecordLeavesGateStateUnchanged ==
    [][hist'.rec # hist.rec => UNCHANGED <<zset, zttl, blockTtl, whitelist>>]_vars

\* a brute-force pattern was detected for an address whose block, set
\* earlier, and whose auth window are still what they were
C17_Witness ==
    \E i \in 1..Len(hist.rec) :
        LET ip == hist.rec[i].e.ip_address
        IN /\ Len(hist.rec[i].stored) = 2
           /\ hist.rec[i].stored[2].event_type = "brute_force_attempt"
           /\ hist.blk[ip] # <<>>
           /\ hist.rec[i].t > hist.blk[ip][1]
           /\ blockTtl[ip] = hist.blk[ip][1] + hist.blk[ip][2]
           /\ \E j \in 1..Len(Log) :
                  /\ Log[j].ip = ip
                  /\ Log[j].t < hist.rec[i].t
                  /\ zset[key_minute(Log[j].path, ip)] = {Log[j].t}

\* C18: the recent list, every per-IP list and every per-user list hold at
\* most RECENT_CAP events.
C18_EveryEventListCapped ==
    /\ Len(mon.recent) <= RECENT_CAP
    /\ \A ip \in MonIPs : Len(mon.ip[ip]) <= RECENT_CAP
    /\ \A u \in Users : Len(mon.user[u]) <= RECENT_CAP

\* how many times the list l holds the event with the id of e
Copies(l, e) == Cardinality({i \in 1..Len(l) : l[i].id = e.id})

\* C19: when no clear and no delete is under way and the cap has not been
\* reached, every event that was stored and that no clear and no delete
\* selected is exactly once in the recent list and exactly once in the list of
\* its address, whatever the interleaving of the record calls with the steps
\* of the clear and delete operations.
C19_NoEventLostOrDuplicated ==
    (adm.pc = "idle" /\ Len(hist.events) <= RECENT_CAP) =>
        \A k \in 1..Len(hist.events) :
            LET e == hist.events[k]
            IN e.id \notin hist.selected =>
                   /\ Copies(mon.recent, e) = 1
                   /\ Copies(mon.ip[e.ip_address], e) = 1

\* the events that clear(event_type, older_than_hours) is to remove when both
\* filters are given: those of the type that are older than the hours
Matching(events, event_type, older_than_hours, t) ==
    {k \in 1..Len(events) : /\ events[k].event_type = event_type
                            /\ events[k].timestamp < t - older_than_hours * HOUR}

\* C20: when clear_events with both filters has returned and nothing was
\* recorded meanwhile, the events it found that have the type and are older
\* than the hours are in neither the recent list nor the list of their
\* address, every other event it found is still once in both, and the count
\* returned is the number of the former.
C20_ClearRemovesExactlyTheMatching ==
    ( /\ adm.op = "clear" /\ adm.pc = "log"
      /\ adm.event_type # "" /\ adm.older_than_hours # 0
      /\ connected /\ storeUp
      /\ Len(hist.rec) = adm.seen )
    => LET sel == Matching(adm.events, adm.event_type, adm.older_than_hours, now)
       IN /\ \A k \in 1..Len(adm.events) :
                 LET e == adm.events[k]
                     n == IF k \in sel THEN 0 ELSE 1
                 IN /\ Copies(mon.recent, e) = n
                    /\ Copies(mon.ip[e.ip_address], e) = n
          /\ adm.cleared_count = Cardinality(sel)

\* clear_events has returned to the route, the store reachable throughout and
\* nothing recorded since the call began
ClearReturned ==
    /\ adm.op = "clear" /\ adm.pc = "log"
    /\ connected /\ storeUp
    /\ Len(hist.rec) = adm.seen

C22_FailedOperationLeavesListsAsTheyWere ==
    /\ []( ( /\ adm.op \in {"clear", "delete_event"}
             /\ adm.pc \in {"log", "idle"}
             /\ adm.failed
             /\ Len(hist.rec) = adm.seen )
           => /\ adm.cleared_count = 0
              /\ mon.recent = adm.before.recent
              /\ mon.ip = adm.before.ip )
    /\ []( (adm.op = "read" /\ adm.failed) => adm.events = <<>> /\ adm.found = <<>> )
    /\ [][ ( /\ Len(hist'.rec) = Len(hist.rec) + 1
             /\ ~hist'.rec[Len(hist'.rec)].conn
             /\ adm' = adm )
           => mon' = mon ]_vars

C24_AllowedCarriesBothWindowsInfo ==
    \A i \in 1..Len(Log) :
        (Log[i].kind = "ok" /\ {"min", "hour"} \subseteq Log[i].ran) =>
            /\ rate_limit_values(Log[i].rate_info_minute) \subseteq Log[i].values
            /\ rate_limit_values(Log[i].rate_info_hour) \subseteq Log[i].values

C26_SeverityFollowsTheGateCategory ==
    \A i \in 1..Len(hist.rec) :
        LET e == hist.rec[i].e
        IN e.event_type = "rate_limit_exceeded" =>
               e.severity = IF category(e.endpoint) = "auth" THEN "high" ELSE "medium"

C28_SameInstantCallsCountSeparately ==
    ( /\ storeUp
      /\ \A i \in 1..Len(hist.calls) : hist.calls[i].t > now - hist.window )
    => ZCard(zset[hist.key]) = Len(hist.calls)

\* the timestamps of the window of call i: those stored before the call that
\* are newer than now - W
Counted(i) ==
    {m \in hist.calls[i].before : m > hist.calls[i].t - hist.window}

CategoryOfPath(path_) ==
    LET path == Lower(path_) IN
    IF \/ Contains(path, <<"/login">>)
       \/ Contains(path, <<"/register">>)
       \/ Contains(path, <<"/auth">>)
    THEN "auth"
    ELSE IF Contains(path, <<"/upload">>) THEN "upload"
    ELSE IF Contains(path, <<"/admin">>) THEN "admin"
    ELSE "api"

\* the (per minute, per hour) limits of a category
LimitsOfCategory(c) ==
    CASE c = "auth" -> get_auth_limits
      [] c = "upload" -> get_upload_limits
      [] c = "admin" -> get_admin_limits
      [] OTHER -> get_api_limits

\* C30: the category of a request is decided by its lower-cased path alone
\* (auth for /login, /register or /auth, else upload for /upload, else admin
\* for /admin, else api); the rate key a request counts on names that
\* category and its address, and the limit applied with the key is the limit
\* of that category for the key's window.
C30_KeyAndLimitsOfThePathCategory ==
    [][ \A w \in Workers, k \in RateKeys :
           ( /\ wk[w].pc \in {"minute", "hour"}
             /\ wk'[w] # wk[w]
             /\ zset'[k] # zset[k] )
           => LET c == CategoryOfPath(wk[w].path)
                  suffix == IF wk[w].pc = "minute" THEN ":1m" ELSE ":1h"
              IN /\ k = <<c, ":ip:">> \o wk[w].ip \o <<suffix>>
                 /\ wk[w].pc = "minute" =>
                        wk'[w].rate_info_minute.limit = LimitsOfCategory(c)[1]
                 /\ wk[w].pc = "hour" =>
                        wk'[w].rate_info_hour.limit = LimitsOfCategory(c)[2] ]_vars

\* answered requests to an upper-case login path, to an upload path under
\* /admin and to a path holding auth without /auth, each counted with the
\* limits of its category in both windows
C30_Witness ==
    \A p \in {PathLoginUpper, PathAdminUploads, PathOauth} :
        \E i \in 1..Len(hist.log) :
            /\ hist.log[i].path = p
            /\ {"min", "hour"} \subseteq hist.log[i].ok
            /\ hist.log[i].rate_info_minute.limit = LimitsOfCategory(CategoryOfPath(p))[1]
            /\ hist.log[i].rate_info_hour.limit = LimitsOfCategory(CategoryOfPath(p))[2]

\* C31: a call the Limiter reports over the limit is an entry of the window
\* too, so a call is admitted only when fewer than `limit` calls, admitted or
\* denied, were made inside the window that ends at it.
C31_DeniedCallsCountInTheWindow ==
    /\ \A i \in 1..Len(hist.calls) :
          (hist.calls[i].reached /\ ~hist.calls[i].is_limited)
              => Cardinality(CallsInWindow(i)) < hist.limit
    /\ \A i \in 1..Len(hist.calls) :
          (hist.calls[i].reached /\ hist.calls[i].is_limited /\ hist.calls[i].t = now)
              => hist.calls[i].t \in zset[hist.key]

\* C32: when a clear whose filter removed some and not all events of the
\* recent list has returned, and nothing was recorded meanwhile, recent()
\* returns the retained events, unchanged and in the newest-first order they
\* had before the clear.
C32_ClearKeepsOrderOfRetained ==
    ( /\ ClearReturned
      /\ ~adm.failed
      /\ adm.cleared_count > 0
      /\ adm.events_to_keep # <<>> )
    => get_recent_events(mon, READ_LIMIT, connected /\ storeUp) = adm.events_to_keep

\* C33: a record call made while the store is reachable stores its event,
\* whatever outages came before it.
C33_RecordStoresAgainAfterOutage ==
    \A i \in 1..Len(hist.rec) :
        hist.rec[i].up => hist.rec[i].stored # <<>>

Acting ==
    IF adm' # adm THEN {adm'.ip}
    ELSE {IF wk[w].pc = "idle" THEN wk'[w].ip ELSE wk[w].ip :
              w \in {x \in Workers : wk'[x] # wk[x]}}

\* the block, the whitelist membership and the windows of ip stay as they are
SameFor(ip) ==
    /\ blockTtl'[ip] = blockTtl[ip]
    /\ (ip \in whitelist') = (ip \in whitelist)
    /\ \A p \in Paths \ ExemptPaths :
          /\ zset'[key_minute(p, ip)] = zset[key_minute(p, ip)]
          /\ zset'[key_hour(p, ip)] = zset[key_hour(p, ip)]

C37_AtMostOneNestedRecord ==
    \A i \in 1..Len(hist.rec) :
        /\ ~hist.rec[i].cut
        /\ hist.rec[i].calls <= 2
        /\ hist.rec[i].calls = 2 =>
               /\ Len(hist.rec[i].stored) = 2
               /\ hist.rec[i].stored[2].event_type \in
                      {"brute_force_attempt", "suspicious_request"}

\* a record call that recorded a brute_force_attempt in a nested call and one
\* that recorded a suspicious_request
C37_Witness ==
    \A ty \in {"brute_force_attempt", "suspicious_request"} :
        \E i \in 1..Len(hist.rec) :
            /\ hist.rec[i].calls = 2
            /\ hist.rec[i].stored[2].event_type = ty

\* C38: of the calls of check_rate_limit for one (endpoint, user_id) made
\* within one period, counted from the first call, at most `limit` return True,
\* also when several workers make them at the same time.
C38_AtMostLimitTruePerPeriod ==
    Cardinality({i \in 1..Len(hist.checks) :
                    /\ hist.checks[i].result
                    /\ hist.checks[i].up
                    /\ \A j \in 1..Len(hist.checks) :
                          hist.checks[i].t < hist.checks[j].t + hist.window})
        <= hist.limit

\* C39: the counter key of check_rate_limit carries an expiry whenever it
\* exists, so a pair that was refused is accepted again once the period has
\* passed.
C39_CounterKeyAlwaysExpires ==
    counter.value # 0 => counter.deadline # 0

====
